---- MODULE Spec2Model ----
(***************************************************************************)
(* A model of the finufft Fourier operator of mri-nufft:                   *)
(*   src/src/mrinufft/operators/interfaces/cpu/finufft_interface.py        *)
(*                                                                         *)
(* Numbers are exact: a complex value is a record [re, im, den] standing   *)
(* for (re + i*im)/den with den > 0, in lowest terms.  Images are one-     *)
(* dimensional with an odd number N = 2*HalfWidth+1 of pixels, pixel p     *)
(* carrying the frequency k = p - HalfWidth - 1.  A sample coordinate is a *)
(* rational <<n, d>> in units of pi.                                       *)
(***************************************************************************)
EXTENDS Integers, Sequences, FiniteSets, TLC

\* ------------------------------------------------------------------ bounds
HalfWidth == 1
MaxSamples == 3
MaxCoils == 2
MaxIter == 2

N == 2 * HalfWidth + 1

\* ------------------------------------------------------- exact arithmetic
Abs(a) == IF a < 0 THEN -a ELSE a

RECURSIVE GCD(_, _)
GCD(a, b) == IF b = 0 THEN a ELSE GCD(b, a % b)

\* The value a float computation yields after a division by zero (inf/nan).
NonFinite == [re |-> 0, im |-> 0, den |-> 0]

\* A modulus that is no rational number; it is outside the exact arithmetic
\* and is absorbed like NonFinite (den = 0).
Irrational == [re |-> 0, im |-> 1, den |-> 0]

Cx(re, im) == [re |-> re, im |-> im, den |-> 1]

CNorm(re, im, den) ==
    IF den = 0 THEN NonFinite
    ELSE LET g == GCD(GCD(Abs(re), Abs(im)), Abs(den))
             s == IF den < 0 THEN -1 ELSE 1
         IN  [re |-> s * (re \div g), im |-> s * (im \div g), den |-> s * (den \div g)]

CAdd(a, b) == CNorm(a.re * b.den + b.re * a.den, a.im * b.den + b.im * a.den, a.den * b.den)
CSub(a, b) == CNorm(a.re * b.den - b.re * a.den, a.im * b.den - b.im * a.den, a.den * b.den)
CMul(a, b) == CNorm(a.re * b.re - a.im * b.im, a.re * b.im + a.im * b.re, a.den * b.den)
CConj(a) == [re |-> a.re, im |-> -a.im, den |-> a.den]
CReal(a) == [re |-> a.re, im |-> 0, den |-> a.den]

\* The integer square root of n, by bisection in lo..hi.
RECURSIVE ISqrt(_, _, _)
ISqrt(n, lo, hi) ==
    IF lo >= hi THEN lo
    ELSE LET mid == (lo + hi + 1) \div 2
         IN  IF mid * mid <= n THEN ISqrt(n, mid, hi) ELSE ISqrt(n, lo, mid - 1)

\* |a|: exact when the squared modulus is a perfect square (always so for a
\* real value), and NonFinite stays NonFinite.
CAbs(a) ==
    IF a.den = 0 THEN NonFinite
    ELSE IF a.im = 0 THEN [re |-> Abs(a.re), im |-> 0, den |-> a.den]
    ELSE LET m == a.re * a.re + a.im * a.im
         IN  IF ISqrt(m, 0, m) * ISqrt(m, 0, m) = m
             THEN CNorm(ISqrt(m, 0, m), 0, a.den) ELSE Irrational

\* a / r for a real r; r = 0 gives the non-finite value.
CDiv(a, r) ==
    IF a.den = 0 \/ r.den = 0 \/ r.re = 0 THEN NonFinite
    ELSE CNorm(a.re * r.den, a.im * r.den, a.den * r.re)

RECURSIVE CSum(_, _)
CSum(f, n) == IF n = 0 THEN Cx(0, 0) ELSE CAdd(CSum(f, n - 1), f[n])

\* ---------------------------------------------------------------- arrays
VecMul(a, b) == [j \in 1..Len(a) |-> CMul(a[j], b[j])]
VecSub(a, b) == [j \in 1..Len(a) |-> CSub(a[j], b[j])]

\* numpy broadcasting of a (rows x n) array with a length-n vector
RowsMul(rows, v) == [c \in 1..Len(rows) |-> VecMul(rows[c], v)]

\* np.sum(stack, axis=0)
SumAxis0(stack) ==
    [p \in 1..Len(stack[1]) |-> CSum([c \in 1..Len(stack) |-> stack[c][p]], Len(stack))]

\* ----------------------------------------------------------- coordinates
\* Rationals <<n, d>>, d > 0, in units of pi.
RLess(a, b) == a[1] * b[2] < b[1] * a[2]
RNorm(n, d) == LET g == GCD(Abs(n), Abs(d)) IN <<n \div g, d \div g>>
Pi == <<1, 1>>

\* samples.max()
RECURSIVE SeqMax(_, _)
SeqMax(s, n) ==
    IF n = 1 THEN s[1]
    ELSE LET m == SeqMax(s, n - 1) IN IF RLess(m, s[n]) THEN s[n] ELSE m

\* samples *= np.pi / samples.max()
Rescale(samples) ==
    LET m == SeqMax(samples, Len(samples))
    IN  [j \in 1..Len(samples) |-> RNorm(samples[j][1] * m[2], samples[j][2] * m[1])]

\* ------------------------------------------------------ raw NUFFT plan
\* The plan is the external finufft library behind RawFinufftPlan.  It is
\* modelled as the nonuniform discrete Fourier sum with the phase k*x
\* resolved to the nearest quarter turn (the plan's precision), odd in k.
RoundDiv(a, b) == (2 * a + b) \div (2 * b)

Phase(k, x) ==
    IF k >= 0 THEN RoundDiv(2 * k * x[1], x[2]) ELSE -RoundDiv(2 * (-k) * x[1], x[2])

\* i^q
Unit(q) ==
    LET r == q % 4
    IN  IF r = 0 THEN Cx(1, 0) ELSE IF r = 1 THEN Cx(0, 1)
        ELSE IF r = 2 THEN Cx(-1, 0) ELSE Cx(0, -1)

Freq(p) == p - HalfWidth - 1

RawFinufftPlan(samples, n_trans) == [samples |-> samples, n_trans |-> n_trans]

\* uniform -> nonuniform, one image: c_j = sum_p f_p exp(-i k_p x_j)
Type2One(plan, image) ==
    [j \in 1..Len(plan.samples) |->
        CSum([p \in 1..N |-> CMul(image[p], Unit(-Phase(Freq(p), plan.samples[j])))], N)]

\* nonuniform -> uniform, one coefficient vector: f_p = sum_j c_j exp(+i k_p x_j)
Type1One(plan, coeffs) ==
    [p \in 1..N |->
        CSum([j \in 1..Len(plan.samples) |->
                 CMul(coeffs[j], Unit(Phase(Freq(p), plan.samples[j])))],
             Len(plan.samples))]

\* Batched executions: one transform per row of the batch.
type2(plan, images) == [c \in 1..Len(images) |-> Type2One(plan, images[c])]
type1(plan, coeffs) == [c \in 1..Len(coeffs) |-> Type1One(plan, coeffs[c])]

\* What a call leaves behind: its return value, the exception it raised
\* ("none" when it returned) and the plan executions it issued, in order.
NoValue == <<>>
Returned(ret, log) == [ret |-> ret, raised |-> "none", log |-> log]
Raised(exc, log) == [ret |-> NoValue, raised |-> exc, log |-> log]
Exec(kind, batch) == [exec |-> kind, batch |-> batch]

\* ------------------------------------------------------------ MRIfinufft
\* The module-level flag of _finufft_interface: the native library is present.
FINUFFT_AVAILABLE == TRUE

\* estimate_density's default n_iter
DefaultNIter == 1

None == <<>>

NoOper ==
    [n_samples |-> 0, samples |-> <<>>, density |-> None, n_coils |-> 0,
     _uses_sense |-> FALSE, _smaps |-> None, raw_op |-> RawFinufftPlan(<<>>, 0)]

\* FourierOperatorBase.uses_sense / uses_density
uses_sense(self) == self._uses_sense
uses_density(self) == self.density # None

_apply_dc(self, coeffs) ==
    IF self.density # None THEN RowsMul(coeffs, self.density) ELSE coeffs

\* _op and _adj_op on a batch; a single image or coefficient vector is a
\* batch of one.
_op(self, image) ==
    Returned(type2(self.raw_op, image), <<Exec("type2", image)>>)

_adj_op(self, coeffs) ==
    LET dc == _apply_dc(self, coeffs)
    IN  Returned(type1(self.raw_op, dc), <<Exec("type1", dc)>>)

Ones(n) == [j \in 1..n |-> Cx(1, 0)]

\* One pass of the loop of estimate_density:
\*   oper._adj_op(density, img); oper._op(img, update); density /= np.abs(update)
\* (CHOOSE out \in {e(x) : x \in {v}} : TRUE is LET x == v IN e(x), with v
\* evaluated once.)
EstimateRound(oper, density) ==
    LET S1 == {_adj_op(oper, <<density>>)}
        S2 == {[img |-> img, update |-> _op(oper, img.ret)] : img \in S1}
    IN  CHOOSE out \in
            {[density |-> [j \in 1..Len(density) |->
                              CDiv(density[j], CAbs(r.update.ret[1][j]))],
              log |-> r.img.log \o r.update.log] : r \in S2} : TRUE

\* A loop that stops one pass short.
EstimateRounds_OneShort(oper, density, n) ==
    IF n <= 1 THEN [density |-> density, log |-> <<>>]
    ELSE EstimateRound(oper, density)

\* for _ in range(n_iter): the loop, n passes from the given weights.
RECURSIVE EstimateRounds(_, _, _)
EstimateRounds(oper, density, n) ==
    IF n = 0 THEN [density |-> density, log |-> <<>>]
    ELSE CHOOSE out \in UNION
            {{[density |-> rest.density, log |-> first.log \o rest.log] :
                 rest \in {EstimateRounds(oper, first.density, n - 1)}} :
             first \in {EstimateRound(oper, density)}} : TRUE

\* What a construction (or an estimation) leaves behind: the exception raised
\* ("none" when it succeeded), the operator, the warnings emitted, the number
\* of estimate_density runs, the operators those runs built, and the plan
\* executions issued.
Built(self, warnings, est) ==
    [raised |-> "none", self |-> self, warnings |-> warnings,
     estimations |-> est.estimations, opers |-> est.opers, log |-> est.log]
Failed(exc, warnings, est) ==
    [raised |-> exc, self |-> NoOper, warnings |-> warnings,
     estimations |-> est.estimations, opers |-> est.opers, log |-> est.log]

NoEstimate ==
    [ret |-> None, raised |-> "none", warnings |-> <<>>, estimations |-> 0,
     opers |-> <<>>, log |-> <<>>]

\* line 47: samples.max() > np.pi
NeedsRescale(samples) == RLess(Pi, SeqMax(samples, Len(samples)))

\* A length check that rejects only a density array that is too long.
BadDensity_TooLong(density, samples) ==
    density.kind = "ndarray" /\ Len(density.val) > Len(samples)

\* lines 58-59: an explicit density array of the wrong length
BadDensity(density, samples) ==
    density.kind = "ndarray" /\ Len(density.val) # Len(samples)

\* A coil check that lets zero coils through.
BadCoils_Negative(n_coils) == n_coils < 0

\* line 67
BadCoils(n_coils) == n_coils < 1

\* line 72: the maps are rejected when they are an ndarray
BadSmaps(smaps) == smaps.kind = "ndarray"

\* The constructor from the density setup on (lines 55-84), with the samples
\* as lines 45-51 left them and the outcome est of the density estimation
\* (NoEstimate unless density is True).
Setup(samples, warn, est, density, n_coils, smaps) ==
    IF est.raised # "none" THEN Failed(est.raised, warn \o est.warnings, est)
    ELSE IF BadDensity(density, samples)
      THEN Failed("ValueError: density length", warn, est)
    ELSE IF BadCoils(n_coils)
      THEN Failed("ValueError: n_coils", warn \o est.warnings, est)
    ELSE IF smaps.kind # "None" /\ BadSmaps(smaps)
      THEN Failed("ValueError: smaps", warn \o est.warnings, est)
    ELSE Built([n_samples |-> Len(samples), samples |-> samples,
                density |-> IF density.kind = "True" THEN est.ret
                            ELSE IF density.kind = "ndarray" THEN density.val ELSE None,
                n_coils |-> n_coils, _uses_sense |-> smaps.kind # "None",
                _smaps |-> IF smaps.kind # "None" THEN smaps.maps ELSE None,
                raw_op |-> RawFinufftPlan(samples, n_coils)],
               warn \o est.warnings, est)

RECURSIVE estimate_density(_, _)

\* MRIfinufft.__init__(samples, shape, density, n_coils, smaps)
__init__(samples, density, n_coils, smaps) ==
    IF ~FINUFFT_AVAILABLE THEN Failed("RuntimeError", <<>>, NoEstimate)
    ELSE
    LET warn == IF NeedsRescale(samples)
                THEN <<"samples will be normalized in [-pi, pi]">> ELSE <<>>
    IN  CHOOSE out \in UNION
            {{Setup(scaled, warn, est, density, n_coils, smaps) :
                 est \in {IF density.kind = "True"
                            THEN estimate_density(scaled, DefaultNIter)
                            ELSE NoEstimate}} :
             scaled \in {IF NeedsRescale(samples) THEN Rescale(samples) ELSE samples}} : TRUE

\* MRIfinufft.estimate_density(samples, shape, n_iter)
estimate_density(samples, n_iter) ==
    CHOOSE out \in UNION
       {{[ret |-> IF made.raised # "none" THEN None
                  ELSE [j \in 1..Len(samples) |-> CReal(run.density[j])],
          raised |-> made.raised, warnings |-> made.warnings,
          estimations |-> 1 + made.estimations,
          opers |-> <<made.self>> \o made.opers,
          log |-> made.log \o run.log] :
            run \in {IF made.raised # "none" THEN [density |-> None, log |-> <<>>]
                     ELSE EstimateRounds(made.self, Ones(Len(samples)), n_iter)}} :
        made \in {__init__(samples, [kind |-> "False", val |-> <<>>], 1,
                           [kind |-> "None", maps |-> <<>>])}} : TRUE

\* ------------------------------------------------------------------- op
\* The branch op takes (lines 103-112).
OpMode(self) ==
    IF self.n_coils = 1 THEN "mono"
    ELSE IF uses_sense(self) THEN "sense"
    ELSE "calibless"

_op_mono(self, data) ==
    LET r == _op(self, <<data>>) IN Returned(r.ret[1], r.log)

\* coil_img = data * self._smaps is formed, then self._op(coil_img) is called
\* without its second positional argument: Python raises TypeError before
\* any plan execution.
_op_sense(self, data) ==
    LET coil_img == RowsMul(self._smaps, data)
    IN  Raised("TypeError", <<>>)

\* A loop that transforms the first coil's image for every coil.
_op_calibless_FirstCoil(self, data) ==
    LET each == [i \in 1..self.n_coils |-> _op(self, <<data[1]>>)]
    IN  Returned([i \in 1..self.n_coils |-> each[i].ret[1]],
                 [i \in 1..self.n_coils |-> each[i].log[1]])

_op_calibless(self, data) ==
    LET each == [i \in 1..self.n_coils |-> _op(self, <<data[i]>>)]
    IN  Returned([i \in 1..self.n_coils |-> each[i].ret[1]],
                 [i \in 1..self.n_coils |-> each[i].log[1]])

op(self, data) ==
    IF OpMode(self) = "mono" THEN _op_mono(self, data)
    ELSE IF OpMode(self) = "sense" THEN _op_sense(self, data)
    ELSE _op_calibless(self, data)

\* --------------------------------------------------------------- adj_op
\* The branch adj_op takes (lines 148-156).
AdjOpMode(self) ==
    IF self.n_coils = 1 THEN "mono"
    ELSE IF uses_sense(self) THEN "sense"
    ELSE "calibless"

_adj_op_mono(self, coeffs) ==
    LET r == _adj_op(self, <<coeffs>>) IN Returned(r.ret[1], r.log)

\* What the plan can do when handed n_coils coefficient rows and an output
\* buffer of a single image (coil_img = np.empty(self.shape)): refuse the
\* buffer, or write past it, leaving the first image of the batch in it.
BackendOutcomes == {"refuses", "overruns"}

_adj_op_sense(self, coeffs, outcome) ==
    LET r == _adj_op(self, coeffs)
        coil_img == r.ret[1]
    IN  IF outcome = "refuses" THEN Raised("RuntimeError", <<>>)
        ELSE Returned(SumAxis0([c \in 1..Len(self._smaps) |->
                                   [p \in 1..N |-> CMul(coil_img[p], CConj(self._smaps[c][p]))]]),
                      r.log)

_adj_op_calibless(self, coeffs) == _adj_op(self, coeffs)

adj_op(self, coeffs, outcome) ==
    IF AdjOpMode(self) = "mono" THEN _adj_op_mono(self, coeffs)
    ELSE IF AdjOpMode(self) = "sense" THEN _adj_op_sense(self, coeffs, outcome)
    ELSE _adj_op_calibless(self, coeffs)

\* ----------------------------------------------------- data_consistency
\* A dispatch that tests the SENSE flag before the coil count.
DataConsistencyMode_SenseFirst(self) ==
    IF uses_sense(self) THEN "sense"
    ELSE IF self.n_coils = 1 THEN "mono"
    ELSE "calibless"

\* The branch data_consistency takes (lines 201-205).
DataConsistencyMode(self) ==
    IF self.n_coils = 1 THEN "mono"
    ELSE IF uses_sense(self) THEN "sense"
    ELSE "calibless"

\* A fused chain that multiplies by the density itself before _adj_op does.
_data_consistency_mono_TwiceWeighted(self, image_data, obs_data) ==
    LET fwd == _op(self, <<image_data>>)
        ksp == VecSub(fwd.ret[1], obs_data)
        adj == _adj_op(self, _apply_dc(self, <<ksp>>))
    IN  Returned(adj.ret[1], fwd.log \o adj.log)

_data_consistency_mono(self, image_data, obs_data) ==
    LET fwd == _op(self, <<image_data>>)
        ksp == VecSub(fwd.ret[1], obs_data)
        adj == _adj_op(self, <<ksp>>)
    IN  Returned(adj.ret[1], fwd.log \o adj.log)

\* The first pass of the loop reads self._smap, an attribute the operator
\* never sets: AttributeError before any plan execution.
_data_consistency_sense(self, image_data, obs_data) ==
    Raised("AttributeError", <<>>)

\* With density weights the first pass reads self.density_d, an attribute
\* the operator never sets, after its type-2 execution.
_data_consistency_calibless(self, image_data, obs_data) ==
    LET fwd == [i \in 1..self.n_coils |-> _op(self, <<image_data[i]>>)]
        ksp == [i \in 1..self.n_coils |-> VecSub(fwd[i].ret[1], obs_data[i])]
        adj == [i \in 1..self.n_coils |-> _adj_op(self, <<ksp[i]>>)]
    IN  IF uses_density(self) THEN Raised("AttributeError", fwd[1].log)
        ELSE Returned([i \in 1..self.n_coils |-> adj[i].ret[1]],
                      [q \in 1..(2 * self.n_coils) |->
                          IF q % 2 = 1 THEN fwd[(q + 1) \div 2].log[1]
                          ELSE adj[q \div 2].log[1]])

data_consistency(self, image_data, obs_data) ==
    IF DataConsistencyMode(self) = "mono"
      THEN _data_consistency_mono(self, image_data, obs_data)
    ELSE IF DataConsistencyMode(self) = "sense"
      THEN _data_consistency_sense(self, image_data, obs_data)
    ELSE _data_consistency_calibless(self, image_data, obs_data)

\* ----------------------------------------------------------------- inputs
Coords == {<<-3, 2>>, <<1, 2>>, <<3, 2>>}
\* Trajectories that sweep the coordinate axis in one direction.
Monotone(s) ==
    \/ \A j \in 1..(Len(s) - 1) : ~RLess(s[j + 1], s[j])
    \/ \A j \in 1..(Len(s) - 1) : ~RLess(s[j], s[j + 1])
SampleInputs == UNION {{s \in [1..n -> Coords] : Monotone(s)} : n \in 1..MaxSamples}

Weights(n) == [j \in 1..n |-> Cx(j + 1, 0)]
DensityArgs ==
    {[kind |-> "False", val |-> <<>>], [kind |-> "True", val |-> <<>>]}
    \cup {[kind |-> "ndarray", val |-> Weights(n)] : n \in 1..MaxSamples}

SMap(c) == [p \in 1..N |-> Cx(p % 2, c)]
SmapsArgs ==
    {[kind |-> "None", maps |-> <<>>]}
    \cup {[kind |-> k, maps |-> [c \in 1..m |-> SMap(c)]] :
            k \in {"ndarray", "array_like"}, m \in 1..MaxCoils}

\* Two families of images and of coefficient vectors, indexed by an integer.
Image(t) == [p \in 1..N |-> IF t % 2 = 0 THEN Cx(p, t + 1) ELSE Cx(((p + t) % 3) - 1, p % 2)]
Ksp(t, n) == [j \in 1..n |-> IF t % 2 = 0 THEN Cx(1 - t, j) ELSE Cx(j + t, -1)]

\* An image as op and data_consistency take it: one image, or one per coil
\* in calibrationless mode.
ImageInputs(self) ==
    IF self.n_coils > 1 /\ ~uses_sense(self)
    THEN {[c \in 1..self.n_coils |-> Image(c + t)] : t \in 0..1}
    ELSE {Image(t) : t \in 0..1}
\* Coefficients: one vector, or one per coil in the multi-coil modes.
KspInputs(self) ==
    IF self.n_coils > 1
    THEN {[c \in 1..self.n_coils |-> Ksp(c + t, self.n_samples)] : t \in 0..1}
    ELSE {Ksp(t, self.n_samples) : t \in 0..1}

\* ------------------------------------------------------------------ state
VARIABLES pc, args, self, ctor, call

vars == <<pc, args, self, ctor, call>>

NoArgs ==
    [samples |-> <<>>, density |-> [kind |-> "False", val |-> <<>>], n_coils |-> 0,
     smaps |-> [kind |-> "None", maps |-> <<>>]]
NoCtor ==
    [raised |-> "none", warnings |-> <<>>, estimations |-> 0, opers |-> <<>>,
     log |-> <<>>]
NoCall ==
    [name |-> "none", mode |-> "none", x |-> NoValue, y |-> NoValue, ret |-> NoValue,
     raised |-> "none", log |-> <<>>, warnings |-> <<>>, estimations |-> 0,
     opers |-> <<>>]

Init ==
    /\ pc = "start"
    /\ args = NoArgs
    /\ self = NoOper
    /\ ctor = NoCtor
    /\ call = NoCall

\* MRIfinufft(samples, shape, density, n_coils, smaps)
Construct ==
    /\ pc = "start"
    /\ \E samples \in SampleInputs, density \in DensityArgs,
          n_coils \in 0..MaxCoils, smaps \in SmapsArgs :
          \E r \in {__init__(samples, density, n_coils, smaps)} :
              /\ pc' = IF r.raised = "none" THEN "ready" ELSE "failed"
              /\ args' = [samples |-> samples, density |-> density,
                          n_coils |-> n_coils, smaps |-> smaps]
              /\ self' = r.self
              /\ ctor' = [raised |-> r.raised, warnings |-> r.warnings,
                          estimations |-> r.estimations, opers |-> r.opers,
                          log |-> r.log]
    /\ UNCHANGED call

\* MRIfinufft.estimate_density(samples, shape, n_iter), called on the class
EstimateDensity ==
    /\ pc = "start"
    /\ \E samples \in SampleInputs, n_iter \in 0..MaxIter :
          \E r \in {estimate_density(samples, n_iter)} :
              call' = [name |-> "estimate_density", mode |-> "none", x |-> samples,
                       y |-> n_iter, ret |-> r.ret, raised |-> r.raised, log |-> r.log,
                       warnings |-> r.warnings, estimations |-> r.estimations,
                       opers |-> r.opers]
    /\ pc' = "returned"
    /\ UNCHANGED <<args, self, ctor>>

Record(name, mode, x, y, result) ==
    CHOOSE out \in {[name |-> name, mode |-> mode, x |-> x, y |-> y, ret |-> r.ret,
                     raised |-> r.raised, log |-> r.log, warnings |-> <<>>,
                     estimations |-> 0, opers |-> <<>>] :
                     r \in {result}} : TRUE

Op ==
    /\ pc = "ready"
    /\ \E data \in ImageInputs(self) :
          call' = Record("op", OpMode(self), data, NoValue, op(self, data))
    /\ pc' = "returned"
    /\ UNCHANGED <<args, self, ctor>>

AdjOp ==
    /\ pc = "ready"
    /\ \E coeffs \in KspInputs(self),
          outcome \in IF AdjOpMode(self) = "sense" THEN BackendOutcomes ELSE {"none"} :
          call' = Record("adj_op", AdjOpMode(self), coeffs, NoValue,
                         adj_op(self, coeffs, outcome))
    /\ pc' = "returned"
    /\ UNCHANGED <<args, self, ctor>>

DataConsistency ==
    /\ pc = "ready"
    /\ \E image_data \in ImageInputs(self), obs_data \in KspInputs(self) :
          call' = Record("data_consistency", DataConsistencyMode(self), image_data,
                         obs_data, data_consistency(self, image_data, obs_data))
    /\ pc' = "returned"
    /\ UNCHANGED <<args, self, ctor>>

\* The caller takes the result; the operator is as it was.
Return ==
    /\ pc = "returned"
    /\ pc' = IF self = NoOper THEN "start" ELSE "ready"
    /\ call' = NoCall
    /\ UNCHANGED <<args, self, ctor>>

Next == Construct \/ EstimateDensity \/ Op \/ AdjOp \/ DataConsistency \/ Return

Spec == Init /\ [][Next]_vars

\* ------------------------------------------------------------ properties
Constructed == args.samples # <<>>
Called(name) == pc = "returned" /\ call.name = name
SmapsGiven == args.smaps.kind # "None"
\* The density weights as an operator applies them: a coefficient-wise product.
Weighted(coeffs) ==
    IF self.density = None THEN coeffs
    ELSE [j \in 1..Len(coeffs) |-> CMul(coeffs[j], self.density[j])]

\* C1 (as stated): every call runs SENSE iff sensitivity maps were provided,
\* calibrationless iff n_coils > 1 and no maps were provided, mono iff
\* n_coils = 1.
C1_ModeAsStated ==
    (pc = "returned" /\ call.name \in {"op", "adj_op", "data_consistency"}) =>
        /\ call.mode = "sense" <=> SmapsGiven
        /\ call.mode = "calibless" <=> (args.n_coils > 1 /\ ~SmapsGiven)
        /\ call.mode = "mono" <=> args.n_coils = 1

\* C1 (amended): op, adj_op and data_consistency all run the same mode, which
\* is mono iff n_coils = 1, SENSE iff n_coils > 1 and sensitivity maps were
\* provided, calibrationless iff n_coils > 1 and no maps were provided.
C1_ModeDispatch ==
    (pc = "returned" /\ call.name \in {"op", "adj_op", "data_consistency"}) =>
        /\ call.mode = "mono" <=> args.n_coils = 1
        /\ call.mode = "sense" <=> (args.n_coils > 1 /\ SmapsGiven)
        /\ call.mode = "calibless" <=> (args.n_coils > 1 /\ ~SmapsGiven)
        /\ OpMode(self) = call.mode
        /\ AdjOpMode(self) = call.mode
        /\ DataConsistencyMode(self) = call.mode

\* A single-coil operator built with sensitivity maps has run data_consistency.
C1_Witness ==
    /\ Called("data_consistency")
    /\ args.n_coils = 1
    /\ SmapsGiven
    /\ call.mode = "mono"

\* C2: in mono mode data_consistency(x, y) returns what adj_op(op(x) - y)
\* returns, by one type-2 execution on x and one type-1 execution on the
\* difference with the density weights applied once.
C2_MonoDataConsistency ==
    (Called("data_consistency") /\ call.mode = "mono") =>
        LET fwd == op(self, call.x)
            diff == VecSub(fwd.ret, call.y)
            naive == adj_op(self, diff, "none")
        IN  /\ call.raised = "none"
            /\ fwd.raised = "none"
            /\ naive.raised = "none"
            /\ call.ret = naive.ret
            /\ call.log = <<Exec("type2", <<call.x>>), Exec("type1", <<Weighted(diff)>>)>>
            /\ call.ret = Type1One(self.raw_op, Weighted(diff))

\* A mono data_consistency on an operator with density weights that are not
\* all one has returned.
C2_Witness ==
    /\ Called("data_consistency")
    /\ call.mode = "mono"
    /\ self.density # None
    /\ \E j \in 1..Len(self.density) : self.density[j] # Cx(1, 0)
    /\ call.raised = "none"
    /\ \E p \in 1..N : call.ret[p] # Cx(0, 0)

\* The operator a mono construction on the same samples and density yields.
MonoOperator == __init__(args.samples, args.density, 1, [kind |-> "None", maps |-> <<>>]).self

\* C3: in calibrationless mode op(images)[i] is the mono op of images[i] and
\* adj_op(kspace)[i] is the mono adj_op of kspace[i], for every coil i.
C3_CalibrationlessPerCoil ==
    (pc = "returned" /\ call.name \in {"op", "adj_op"} /\ call.mode = "calibless") =>
        /\ call.raised = "none"
        /\ Len(call.ret) = args.n_coils
        /\ \A i \in 1..args.n_coils :
              call.ret[i] = IF call.name = "op"
                            THEN op(MonoOperator, call.x[i]).ret
                            ELSE adj_op(MonoOperator, call.x[i], "none").ret

\* A calibrationless adj_op with density weights, on coils that carry
\* different coefficients, has returned.
C3_Witness ==
    /\ Called("adj_op")
    /\ call.mode = "calibless"
    /\ self.density # None
    /\ call.x[1] # call.x[2]
    /\ call.ret[1] # call.ret[2]

\* C4: in SENSE mode adj_op(kspace) issues one batched type-1 execution on the
\* density-compensated coefficients, one image per coil, and returns the sum
\* over coils of coil image times the conjugate of the coil's map.
C4_SenseAdjoint ==
    (Called("adj_op") /\ call.mode = "sense") =>
        LET dc == [c \in 1..Len(call.x) |-> Weighted(call.x[c])]
            coil_img == [c \in 1..Len(call.x) |-> Type1One(self.raw_op, dc[c])]
        IN  /\ call.raised = "none"
            /\ call.log = <<Exec("type1", dc)>>
            /\ call.ret = [p \in 1..N |->
                              CSum([c \in 1..args.n_coils |->
                                       CMul(coil_img[c][p], CConj(self._smaps[c][p]))],
                                   args.n_coils)]

\* C5: in SENSE mode op(image) multiplies the image by each coil's map,
\* issues one batched type-2 execution over the n_coils coil images and
\* returns the coefficients it produced.
C5_SenseForward ==
    (Called("op") /\ call.mode = "sense") =>
        LET coil_img == [c \in 1..args.n_coils |->
                            [p \in 1..N |-> CMul(call.x[p], self._smaps[c][p])]]
        IN  /\ call.raised = "none"
            /\ call.log = <<Exec("type2", coil_img)>>
            /\ call.ret = [c \in 1..args.n_coils |-> Type2One(self.raw_op, coil_img[c])]

\* The errors the specification files under ConfigurationError.
ConfigurationErrors == {"RuntimeError", "ValueError: density length", "ValueError: n_coils"}

\* C6: a construction with n_coils < 1 fails with a configuration error and
\* yields no operator, whatever the density argument and the maps.
C6_NoCoilsFails ==
    (Constructed /\ args.n_coils < 1) =>
        /\ pc = "failed"
        /\ self = NoOper
        /\ ctor.raised \in ConfigurationErrors
        /\ BadDensity(args.density, args.samples) \/ ctor.raised = "ValueError: n_coils"

\* A construction with no coil, an estimated density and sensitivity maps has
\* failed on the coil count.
C6_Witness ==
    /\ pc = "failed"
    /\ args.n_coils = 0
    /\ args.density.kind = "True"
    /\ args.smaps.kind = "array_like"
    /\ ctor.raised = "ValueError: n_coils"

C8_SmapsShape ==
    (/\ Constructed
     /\ SmapsGiven
     /\ args.n_coils >= 1
     /\ ~BadDensity(args.density, args.samples)) =>
        IF Len(args.smaps.maps) = args.n_coils /\ \A c \in 1..args.n_coils : Len(args.smaps.maps[c]) = N
        THEN ctor.raised = "none" /\ self._uses_sense /\ self._smaps = args.smaps.maps
        ELSE pc = "failed" /\ ctor.raised = "ValueError: smaps"

RAbs(x) == <<Abs(x[1]), x[2]>>
InRange(x) == ~RLess(Pi, RAbs(x))

\* C9: after a successful construction every coordinate has magnitude <= pi;
\* when an input coordinate lies outside [-pi, pi] the samples are rescaled
\* so that max(abs(samples)) = pi and a warning is emitted; samples already
\* inside [-pi, pi] are left as they are, with no warning.
C9_SamplesNormalized ==
    (Constructed /\ ctor.raised = "none") =>
        /\ \A j \in 1..Len(self.samples) : InRange(self.samples[j])
        /\ IF \E j \in 1..Len(args.samples) : ~InRange(args.samples[j])
           THEN /\ ctor.warnings # <<>>
                /\ \E j \in 1..Len(self.samples) : RAbs(self.samples[j]) = Pi
           ELSE /\ ctor.warnings = <<>>
                /\ self.samples = args.samples

\* The samples estimate_density works on: the caller's, rescaled by the
\* operator it builds when they exceed pi.
Geometry(samples) == IF NeedsRescale(samples) THEN Rescale(samples) ELSE samples

\* |type2(type1(w))|, the denominators of one pass from the weights w.
Update(plan, w) == Type2One(plan, Type1One(plan, w))

\* The plan executions of n passes: a type-1 on the current weights, then a
\* type-2 on the image it produced, the weights of each pass being those of
\* the pass before divided by the magnitude of its update.
PassesOf(plan, log, n, final) ==
    /\ Len(log) = 2 * n
    /\ \A r \in 1..n :
          /\ log[2 * r - 1].exec = "type1"
          /\ log[2 * r].exec = "type2"
          /\ Len(log[2 * r - 1].batch) = 1
          /\ log[2 * r].batch = <<Type1One(plan, log[2 * r - 1].batch[1])>>
          /\ LET w == log[2 * r - 1].batch[1]
                 after == IF r = n THEN final ELSE log[2 * r + 1].batch[1]
                 update == Update(plan, w)
             IN  \A j \in 1..Len(w) :
                    /\ CAbs(update[j]).re > 0
                    /\ CMul(after[j], CAbs(update[j])) = w[j]
    /\ n > 0 => log[1].batch[1] = Ones(Len(final))
    /\ n = 0 => final = Ones(Len(final))

\* C10: estimate_density builds one operator on the same geometry with the
\* density disabled, runs exactly n_iter passes from all-ones weights and
\* returns the real part of the weights; a construction with density=True
\* runs it exactly once, with n_iter = 1, and keeps its result as the
\* density; the operator the estimation builds runs no estimation.
C10_EstimateDensity ==
    /\ Called("estimate_density") =>
          /\ call.raised = "none"
          /\ call.estimations = 1
          /\ Len(call.opers) = 1
          /\ call.opers[1].density = None
          /\ call.opers[1].samples = Geometry(call.x)
          /\ Len(call.ret) = Len(call.x)
          /\ \A j \in 1..Len(call.ret) : call.ret[j].im = 0
          /\ PassesOf(call.opers[1].raw_op, call.log, call.y, call.ret)
    /\ (Constructed /\ args.density.kind = "True") =>
          /\ ctor.estimations = 1
          /\ Len(ctor.opers) = 1
          /\ ctor.opers[1].density = None
          /\ ctor.opers[1].samples = Geometry(args.samples)
          /\ PassesOf(ctor.opers[1].raw_op, ctor.log, 1,
                      IF ctor.raised = "none" THEN self.density
                      ELSE estimate_density(Geometry(args.samples), 1).ret)
          /\ ctor.raised = "none" => Len(self.density) = Len(args.samples)
    /\ (Constructed /\ args.density.kind # "True") =>
          (ctor.estimations = 0 /\ ctor.opers = <<>> /\ ctor.log = <<>>)

\* An estimation of two passes on three samples has returned weights that
\* are not uniform.
C10_Witness ==
    /\ Called("estimate_density")
    /\ call.y = 2
    /\ Len(call.x) = 3
    /\ call.ret[1] # call.ret[2]
    /\ Len(call.log) = 4

\* The fused chain of one coil: type1(density * (type2(image) - obs)).
CoilChain(image, obs) ==
    Type1One(self.raw_op, Weighted(VecSub(Type2One(self.raw_op, image), obs)))

\* C11: in the multi-coil modes data_consistency(image, obs) runs, per coil,
\* forward -> subtract obs[c] -> density-compensate once -> adjoint from the
\* input image: in SENSE mode it returns the sum over coils of
\* conj(smaps[c]) * type1(density * (type2(smaps[c] * image) - obs[c])), in
\* calibrationless mode result[c] = type1(density * (type2(image[c]) - obs[c]))
\* with no accumulation, and in both modes that is what the unfused
\* adj_op(op(image) - obs) returns.
C11_MultiCoilDataConsistency ==
    (Called("data_consistency") /\ call.mode \in {"sense", "calibless"}) =>
        /\ call.raised = "none"
        /\ call.mode = "sense" =>
              call.ret =
                 [p \in 1..N |->
                    CSum([c \in 1..args.n_coils |->
                             CMul(CConj(self._smaps[c][p]),
                                  CoilChain([q \in 1..N |->
                                                CMul(self._smaps[c][q], call.x[q])],
                                            call.y[c])[p])],
                         args.n_coils)]
        /\ call.mode = "calibless" =>
              /\ call.ret = [c \in 1..args.n_coils |-> CoilChain(call.x[c], call.y[c])]
              /\ call.ret = adj_op(self, [c \in 1..args.n_coils |->
                                             VecSub(op(self, call.x).ret[c], call.y[c])],
                                   "none").ret

====
